---- MODULE Spec2Model ----
(***************************************************************************)
(* simplelogincli: the HTTP API client (pkg/api/client.go) and the         *)
(* commands that drive it (cmd/simplelogin/main.go).                       *)
(*                                                                         *)
(* Strings are sequences of tokens (a token is one character, or a fixed   *)
(* literal of the source such as a path), so that trimming, lower-casing,  *)
(* concatenation and substring search are computed, not assumed.           *)
(***************************************************************************)
EXTENDS Integers, Sequences, FiniteSets, TLC

VARIABLES
    baseURL,   \* Client.baseURL
    apiKey,    \* Client.apiKey
    pc,        \* position of the running operation: "idle", ..., "done"
    call,      \* the operation being run and its arguments
    sent,      \* the HTTP requests issued by the running operation, in order
    resp,      \* the last HTTP response (or transport failure) received
    listed,    \* DeleteAliasByEmail: the last page decoded by ListAliases
    page,      \* DeleteAliasByEmail: the page index of the next ListAliases call
    result,    \* what the operation returned: [err, val]
    run,       \* the custom command: its flags, locals, input line and exit code
    config     \* the environment, config file and keyring, and what Save and Load returned

vars == <<baseURL, apiKey, pc, call, sent, resp, listed, page, result, run, config>>

----------------------------------------------------------------------------
(* Bounds of the model *)

MaxMailboxes == 2      \* longest mailbox list a response carries
MaxAliases == 2        \* most aliases on one listed page
MaxSuffixes == 2       \* most suffixes an alias-options response offers
MaxPage == 2           \* last page index at which the server may still return a full page
MaxURLLen == 4         \* longest base URL handed to NewClient, in tokens

----------------------------------------------------------------------------
(* strings *)

IsSpace(c) == c \in {" ", "\n", "\t"}

RECURSIVE TrimLeft(_)
TrimLeft(s) ==
    IF s # <<>> /\ IsSpace(Head(s)) THEN TrimLeft(Tail(s)) ELSE s

RECURSIVE TrimRight(_)
TrimRight(s) ==
    IF s # <<>> /\ IsSpace(s[Len(s)]) THEN TrimRight(SubSeq(s, 1, Len(s) - 1)) ELSE s

\* strings.TrimSpace
TrimSpace(s) == TrimRight(TrimLeft(s))

\* strings.TrimRight(s, "/")
RECURSIVE TrimRightSlash(_)
TrimRightSlash(s) ==
    IF s # <<>> /\ s[Len(s)] = "/" THEN TrimRightSlash(SubSeq(s, 1, Len(s) - 1)) ELSE s

\* strings.Contains
Contains(s, sub) ==
    \E i \in 0..(Len(s) - Len(sub)) : SubSeq(s, i + 1, i + Len(sub)) = sub

LowerChar(c) ==
    CASE c = "W" -> "w"
      [] c = "U" -> "u"
      [] OTHER -> c

\* strings.ToLower
ToLower(s) == [i \in 1..Len(s) |-> LowerChar(s[i])]

Digit(d) == CASE d = 0 -> "0" [] d = 1 -> "1" [] d = 2 -> "2" [] d = 3 -> "3"
              [] d = 4 -> "4" [] d = 5 -> "5" [] d = 6 -> "6" [] d = 7 -> "7"
              [] d = 8 -> "8" [] d = 9 -> "9"

RECURSIVE DigitsOf(_)
DigitsOf(n) == IF n < 10 THEN <<Digit(n)>> ELSE DigitsOf(n \div 10) \o <<Digit(n % 10)>>

\* strconv.Itoa, and fmt's %d
Itoa(n) == IF n < 0 THEN <<"-">> \o DigitsOf(0 - n) ELSE DigitsOf(n)

IsDigit(c) == c \in {"0", "1", "2", "3", "4", "5", "6", "7", "8", "9"}

DigitVal(c) == CHOOSE d \in 0..9 : Digit(d) = c

RECURSIVE DigitsVal(_)
DigitsVal(s) ==
    IF s = <<>> THEN 0 ELSE 10 * DigitsVal(SubSeq(s, 1, Len(s) - 1)) + DigitVal(s[Len(s)])

\* strconv.Atoi: an optional sign, then one digit or more and nothing else
Atoi(s) ==
    LET signed == s # <<>> /\ Head(s) \in {"+", "-"}
        ds == IF signed THEN Tail(s) ELSE s
    IN IF ds = <<>> \/ \E i \in 1..Len(ds) : ~IsDigit(ds[i])
       THEN [ok |-> FALSE, val |-> 0]
       ELSE [ok |-> TRUE,
             val |-> IF signed /\ Head(s) = "-" THEN 0 - DigitsVal(ds) ELSE DigitsVal(ds)]

\* strings.Split(s, sep) for a one-character sep: the parts between the
\* separators, empty ones kept
RECURSIVE Split(_, _)
Split(s, sep) ==
    IF \A i \in 1..Len(s) : s[i] # sep THEN <<s>>
    ELSE LET k == CHOOSE i \in 1..Len(s) : s[i] = sep /\ \A j \in 1..(i - 1) : s[j] # sep
         IN <<SubSeq(s, 1, k - 1)>> \o Split(SubSeq(s, k + 1, Len(s)), sep)

\* the byte of a character, for the characters the suffixes are written in
Byte(c) ==
    CASE c = "." -> 46
      [] c = "A" -> 65
      [] c = "a" -> 97
      [] c = "b" -> 98
      [] OTHER -> 0

\* Go's s < t on strings: byte-wise, a proper prefix first
RECURSIVE StrLess(_, _)
StrLess(s, t) ==
    IF t = <<>> THEN FALSE
    ELSE IF s = <<>> THEN TRUE
    ELSE IF Head(s) # Head(t) THEN Byte(Head(s)) < Byte(Head(t))
    ELSE StrLess(Tail(s), Tail(t))

----------------------------------------------------------------------------
(* values *)

\* a *string: nil, or a pointer to s
NilStr == [isNil |-> TRUE, s |-> <<>>]
PtrTo(s) == [isNil |-> FALSE, s |-> s]

\* an `any` (interface) value as Go holds it: the untyped nil, or a dynamic
\* type with its value; a nil pointer stored in an interface is typed, and the
\* interface holding it is not nil.
\* a []int: the nil slice, or a slice of elements v
NilInts == [isNil |-> TRUE, v |-> <<>>]
IntsOf(v) == [isNil |-> FALSE, v |-> v]

Body(typ, isNilPtr, note, name, aliasPrefix, signedSuffix, mailboxIDs) ==
    [typ |-> typ, isNilPtr |-> isNilPtr, note |-> note, name |-> name,
     aliasPrefix |-> aliasPrefix, signedSuffix |-> signedSuffix, mailboxIDs |-> mailboxIDs]

NilIface == Body("nil", FALSE, NilStr, NilStr, <<>>, <<>>, NilInts)
RandomBody(ptrIsNil, note) ==
    Body("*createRandomAliasRequest", ptrIsNil, note, NilStr, <<>>, <<>>, NilInts)
\* a createCustomAliasRequest value
CustomBody(aliasPrefix, signedSuffix, mailboxIDs, note, name) ==
    Body("createCustomAliasRequest", FALSE, note, name, aliasPrefix, signedSuffix, mailboxIDs)

\* error values: the nil error, or an error with its message
NoErr == [isNil |-> TRUE, msg |-> <<>>]
ErrorOf(msg) == [isNil |-> FALSE, msg |-> msg]

DefaultBaseURL == <<"https://app.simplelogin.io">>

----------------------------------------------------------------------------
(* requests *)

\* url.Values: a map from parameter name to value; Set replaces the value
EmptyQuery == <<>>
QuerySet(q, k, v) == (k :> v) @@ q

\* the parameter names in use, in the sorted order Encode emits them
KeyOrder == <<"hostname", "mode", "page_id">>

EscapeChar(c) ==
    CASE c = " " -> "+"
      [] c = "\t" -> "%09"
      [] c = "\n" -> "%0A"
      [] c = "@" -> "%40"
      [] OTHER -> c

\* url.QueryEscape
QueryEscape(s) == [i \in 1..Len(s) |-> EscapeChar(s[i])]

RECURSIVE EncodeFrom(_, _, _)
EncodeFrom(q, i, first) ==
    IF i > Len(KeyOrder) THEN <<>>
    ELSE IF KeyOrder[i] \in DOMAIN q
         THEN (IF first THEN <<>> ELSE <<"&">>)
              \o <<KeyOrder[i], "=">> \o QueryEscape(q[KeyOrder[i]])
              \o EncodeFrom(q, i + 1, FALSE)
         ELSE EncodeFrom(q, i + 1, first)

\* url.Values.Encode: key=value pairs sorted by key, joined by &
Encode(q) == EncodeFrom(q, 1, TRUE)

\* the characters encoding/json escapes inside a string
JSONEscapeChar(c) ==
    CASE c = "\"" -> "\\\""
      [] c = "\\" -> "\\\\"
      [] c = "<" -> "\\u003c"
      [] OTHER -> c

\* the string written without escaping
Quote_NoEscape(s) == <<"\"">> \o s \o <<"\"">>

\* a JSON string literal
Quote(s) == <<"\"">> \o [i \in 1..Len(s) |-> JSONEscapeChar(s[i])] \o <<"\"">>

RECURSIVE JoinInts(_)
JoinInts(v) ==
    IF v = <<>> THEN <<>>
    ELSE IF Len(v) = 1 THEN Itoa(v[1])
    ELSE Itoa(v[1]) \o <<",">> \o JoinInts(Tail(v))

\* a []int as JSON: null for the nil slice
MarshalInts(ids) == IF ids.isNil THEN <<"null">> ELSE <<"[">> \o JoinInts(ids.v) \o <<"]">>

\* json.Marshal of a createCustomAliasRequest: note and name are omitempty pointers
MarshalCustom(body) ==
    <<"{", "\"alias_prefix\":">> \o Quote(body.aliasPrefix)
    \o <<",", "\"signed_suffix\":">> \o Quote(body.signedSuffix)
    \o <<",", "\"mailbox_ids\":">> \o MarshalInts(body.mailboxIDs)
    \o (IF body.note.isNil THEN <<>> ELSE <<",", "\"note\":">> \o Quote(body.note.s))
    \o (IF body.name.isNil THEN <<>> ELSE <<",", "\"name\":">> \o Quote(body.name.s))
    \o <<"}">>

\* json.Marshal of the request bodies the client builds
Marshal(body) ==
    IF body.typ = "createCustomAliasRequest" THEN MarshalCustom(body)
    ELSE IF body.isNilPtr THEN <<"null">>
    ELSE IF body.note.isNil THEN <<"{", "}">>
    ELSE <<"{", "\"note\":\"">> \o body.note.s \o <<"\"", "}">>

\* the position of the first token c at or after i, 0 when there is none
RECURSIVE IndexFrom(_, _, _)
IndexFrom(t, i, c) ==
    IF i > Len(t) THEN 0 ELSE IF t[i] = c THEN i ELSE IndexFrom(t, i + 1, c)

JSONUnescapeChar(c) ==
    CASE c = "\\\"" -> "\""
      [] c = "\\\\" -> "\\"
      [] c = "\\u003c" -> "<"
      [] OTHER -> c

\* the receiver reads a string literal at position i
ReadString(t, i) ==
    IF i > Len(t) \/ t[i] # "\"" \/ IndexFrom(t, i + 1, "\"") = 0
    THEN [ok |-> FALSE, val |-> <<>>, next |-> i]
    ELSE LET j == IndexFrom(t, i + 1, "\"") IN
         [ok |-> TRUE, val |-> [k \in 1..(j - i - 1) |-> JSONUnescapeChar(t[i + k])],
          next |-> j + 1]

\* the receiver reads a []int at position i: null, or numbers in brackets
ReadInts(t, i) ==
    IF i > Len(t) THEN [ok |-> FALSE, val |-> NilInts, next |-> i]
    ELSE IF t[i] = "null" THEN [ok |-> TRUE, val |-> NilInts, next |-> i + 1]
    ELSE IF t[i] # "[" \/ IndexFrom(t, i + 1, "]") = 0
    THEN [ok |-> FALSE, val |-> NilInts, next |-> i]
    ELSE LET j == IndexFrom(t, i + 1, "]")
             inner == SubSeq(t, i + 1, j - 1)
             parts == IF inner = <<>> THEN <<>> ELSE Split(inner, ",")
         IN IF \E k \in 1..Len(parts) : ~Atoi(parts[k]).ok
            THEN [ok |-> FALSE, val |-> NilInts, next |-> i]
            ELSE [ok |-> TRUE, val |-> IntsOf([k \in 1..Len(parts) |-> Atoi(parts[k]).val]),
                  next |-> j + 1]

\* what the receiver holds before decoding: no key seen, zero values
NoFields ==
    [ok |-> TRUE, keys |-> {}, alias_prefix |-> <<>>, signed_suffix |-> <<>>,
     mailbox_ids |-> NilInts, note |-> <<>>, name |-> <<>>]

\* the receiver stores the value v read for the key token k
SetField(acc, k, v) ==
    CASE k = "\"alias_prefix\":" -> [acc EXCEPT !.keys = @ \cup {"alias_prefix"}, !.alias_prefix = v]
      [] k = "\"signed_suffix\":" -> [acc EXCEPT !.keys = @ \cup {"signed_suffix"}, !.signed_suffix = v]
      [] k = "\"mailbox_ids\":" -> [acc EXCEPT !.keys = @ \cup {"mailbox_ids"}, !.mailbox_ids = v]
      [] k = "\"note\":" -> [acc EXCEPT !.keys = @ \cup {"note"}, !.note = v]
      [] k = "\"name\":" -> [acc EXCEPT !.keys = @ \cup {"name"}, !.name = v]

\* the receiver reads the members of the object from position i
RECURSIVE ReadFields(_, _, _)
ReadFields(t, i, acc) ==
    IF i > Len(t)
       \/ t[i] \notin {"\"alias_prefix\":", "\"signed_suffix\":", "\"mailbox_ids\":",
                       "\"note\":", "\"name\":"}
    THEN [acc EXCEPT !.ok = FALSE]
    ELSE LET v == IF t[i] = "\"mailbox_ids\":" THEN ReadInts(t, i + 1) ELSE ReadString(t, i + 1)
         IN IF ~v.ok THEN [acc EXCEPT !.ok = FALSE]
            ELSE IF v.next = Len(t) /\ t[v.next] = "}" THEN SetField(acc, t[i], v.val)
            ELSE IF v.next < Len(t) /\ t[v.next] = ","
                 THEN ReadFields(t, v.next + 1, SetField(acc, t[i], v.val))
            ELSE [acc EXCEPT !.ok = FALSE]

\* the receiver decodes the body of a create-custom-alias request
DecodeCustom(t) ==
    IF t = <<"{", "}">> THEN NoFields
    ELSE IF Len(t) < 2 \/ t[1] # "{" THEN [NoFields EXCEPT !.ok = FALSE]
    ELSE ReadFields(t, 2, NoFields)

\* the header set whatever the key
AuthHeader_Always(key) == ("Authentication" :> key)

AuthHeader(key) ==
    IF key # <<>> THEN ("Authentication" :> key) ELSE <<>>

\* the content type set on every request
ContentTypeHeader_Always(body) == ("Content-Type" :> <<"application/json">>)

ContentTypeHeader(body) ==
    IF body # NilIface THEN ("Content-Type" :> <<"application/json">>) ELSE <<>>

\* the parameters always appended after a question mark
FullURL_AlwaysQuestion(path, query) ==
    LET full == baseURL \o path IN
    IF DOMAIN query # {} THEN full \o <<"?">> \o Encode(query) ELSE full

FullURL(path, query) ==
    LET full == baseURL \o path IN
    IF DOMAIN query # {}
    THEN IF \E i \in 1..Len(full) : full[i] = "?"
         THEN full \o <<"&">> \o Encode(query)
         ELSE full \o <<"?">> \o Encode(query)
    ELSE full

\* Client.newReq; path, bodyArg and query record the arguments it was called with
newReq(method, path, body, query) ==
    [method  |-> method,
     path    |-> path,
     url     |-> FullURL(path, query),
     hasBody |-> body # NilIface,
     payload |-> IF body # NilIface THEN Marshal(body) ELSE <<>>,
     header  |-> AuthHeader(apiKey) @@ ContentTypeHeader(body),
     bodyArg |-> body,
     query   |-> query]

----------------------------------------------------------------------------
(* responses *)

Statuses == {200, 299, 300, 400}

MailboxIDs == {1, 2}
MailboxEmails == {<<"a">>, <<"b">>}
Mailbox == [id : MailboxIDs, email : MailboxEmails, default : BOOLEAN, verified : BOOLEAN]

AliasIDs == {5, 7}
Emails == {<<"t", "@sl">>, <<"T", "@sl">>}
Alias == [id : AliasIDs, email : Emails]

PlainSuffixes == {<<".", "a">>, <<".", "A">>}
SignedSuffixes == {<<>>, <<"s", "1">>, <<"s", "\"", "2">>}
SuffixOption == [suffix : PlainSuffixes, signedSuffix : SignedSuffixes]

SeqsUpTo(S, n) == UNION {[1..k -> S] : k \in 0..n}

\* an alias is listed once: the IDs of a page differ
DistinctIDs(l) == \A i, j \in 1..Len(l) : i # j => l[i].id # l[j].id

\* A response body as a JSON document: not JSON at all (text), the literal
\* null, a scalar, or an object with the fields the client reads.
Doc(kind, text, hasError, errorIsStr, error, mailboxes, aliases, id, email) ==
    [kind |-> kind, text |-> text, hasError |-> hasError, errorIsStr |-> errorIsStr,
     error |-> error, mailboxes |-> mailboxes, aliases |-> aliases,
     id |-> id, email |-> email, suffixes |-> <<>>]

\* an alias-options object
OptionsDoc(suffixes) ==
    [Doc("object", <<>>, FALSE, FALSE, <<>>, <<>>, <<>>, 0, <<>>) EXCEPT !.suffixes = suffixes]

PlainDoc(kind, text) == Doc(kind, text, FALSE, FALSE, <<>>, <<>>, <<>>, 0, <<>>)
ErrorDoc(isStr, error) == Doc("object", <<>>, TRUE, isStr, error, <<>>, <<>>, 0, <<>>)

\* the bytes of a document
Render(doc) ==
    CASE doc.kind = "invalid" -> doc.text
      [] doc.kind = "null" -> <<"null">>
      [] doc.kind = "scalar" -> <<"5">>
      [] OTHER ->
           <<"{">>
           \o (IF doc.hasError
               THEN IF doc.errorIsStr
                    THEN <<"\"error\":\"">> \o doc.error \o <<"\"">>
                    ELSE <<"\"error\":", "5">>
               ELSE <<>>)
           \o (IF doc.mailboxes # <<>>
               THEN <<"\"mailboxes\":#">> \o Itoa(Len(doc.mailboxes)) ELSE <<>>)
           \o (IF doc.aliases # <<>>
               THEN <<"\"aliases\":#">> \o Itoa(Len(doc.aliases)) ELSE <<>>)
           \o (IF doc.suffixes # <<>>
               THEN <<"\"suffixes\":#">> \o Itoa(Len(doc.suffixes)) ELSE <<>>)
           \o (IF doc.id # 0 THEN <<"\"id\":">> \o Itoa(doc.id) ELSE <<>>)
           \o (IF doc.email # <<>> THEN <<"\"email\":\"">> \o doc.email \o <<"\"">> ELSE <<>>)
           \o <<"}">>

\* a body: its bytes, and the document they spell (padded: with whitespace around)
MkBody(doc, padded) ==
    [raw |-> IF padded THEN <<" ">> \o Render(doc) \o <<"\n">> ELSE Render(doc),
     doc |-> doc]

PlainDocs ==
    {PlainDoc("invalid", <<>>), PlainDoc("invalid", <<"oops">>),
     PlainDoc("null", <<>>), PlainDoc("scalar", <<>>), PlainDoc("object", <<>>)}
    \cup {ErrorDoc(FALSE, <<>>)}
    \cup {ErrorDoc(TRUE, e) : e \in {<<>>, <<"bad input">>, <<" ", "x">>}}

PlainBodies == {MkBody(d, p) : d \in PlainDocs, p \in BOOLEAN}

DataDocs(target) ==
    CASE target = "Mailboxes" ->
           {Doc("object", <<>>, FALSE, FALSE, <<>>, ms, <<>>, 0, <<>>) :
              ms \in SeqsUpTo(Mailbox, MaxMailboxes)}
      [] target = "Aliases" ->
           {Doc("object", <<>>, FALSE, FALSE, <<>>, <<>>, as, 0, <<>>) :
              as \in {l \in SeqsUpTo(Alias, MaxAliases) : DistinctIDs(l)}}
      [] target = "Options" ->
           {OptionsDoc(ss) : ss \in SeqsUpTo(SuffixOption, MaxSuffixes)}
      [] target \in {"Alias", "UserInfo"} ->
           {Doc("object", <<>>, FALSE, FALSE, <<>>, <<>>, <<>>, a.id, a.email) : a \in Alias}
      [] OTHER -> {}

Bodies(target) == PlainBodies \cup {MkBody(d, FALSE) : d \in DataDocs(target)}

\* hc.Do or io.ReadAll failed: no status, no body
TransportFailure == [kind |-> "transport", status |-> 0, body |-> MkBody(PlainDoc("invalid", <<>>), FALSE)]

Responses(target) ==
    {TransportFailure}
    \cup {[kind |-> "http", status |-> s, body |-> b] : s \in Statuses, b \in Bodies(target)}

\* the responses tried for the delete that follows a listing
DeleteResponses ==
    {TransportFailure,
     [kind |-> "http", status |-> 200, body |-> MkBody(PlainDoc("invalid", <<>>), FALSE)],
     [kind |-> "http", status |-> 300, body |-> MkBody(PlainDoc("invalid", <<"oops">>), TRUE)],
     [kind |-> "http", status |-> 400, body |-> MkBody(ErrorDoc(TRUE, <<"bad input">>), FALSE)]}

\* the responses tried for the creation of a custom alias
CreateResponses ==
    DeleteResponses
    \cup {[kind |-> "http", status |-> 200,
           body |-> MkBody(Doc("object", <<>>, FALSE, FALSE, <<>>, <<>>, <<>>, 5, <<"t", "@sl">>),
                           FALSE)]}

----------------------------------------------------------------------------
(* decoding *)

\* the zero value of an output target
Zero(target) ==
    CASE target = "Mailboxes" -> <<>>
      [] target = "Aliases" -> <<>>
      [] target = "Alias" -> [id |-> 0, email |-> <<>>]
      [] target = "UserInfo" -> [email |-> <<>>]
      [] target = "Options" -> <<>>
      [] OTHER -> <<>>

\* json.Unmarshal(b, &e) with e struct{ Error string `json:"error"` }
UnmarshalError(doc) ==
    CASE doc.kind = "invalid" -> [ok |-> FALSE, Error |-> <<>>]
      [] doc.kind = "scalar" -> [ok |-> FALSE, Error |-> <<>>]
      [] doc.kind = "null" -> [ok |-> TRUE, Error |-> <<>>]
      [] OTHER ->
           IF doc.hasError /\ ~doc.errorIsStr THEN [ok |-> FALSE, Error |-> <<>>]
           ELSE [ok |-> TRUE, Error |-> IF doc.hasError THEN doc.error ELSE <<>>]

\* json.Unmarshal(b, out) for the result types
Unmarshal(doc, target) ==
    CASE doc.kind = "invalid" -> [ok |-> FALSE, out |-> Zero(target)]
      [] doc.kind = "scalar" -> [ok |-> FALSE, out |-> Zero(target)]
      [] doc.kind = "null" -> [ok |-> TRUE, out |-> Zero(target)]
      [] OTHER ->
           [ok |-> TRUE,
            out |-> CASE target = "Mailboxes" -> doc.mailboxes
                      [] target = "Aliases" -> doc.aliases
                      [] target = "Alias" -> [id |-> doc.id, email |-> doc.email]
                      [] target = "UserInfo" -> [email |-> doc.email]
                      [] target = "Options" -> doc.suffixes
                      [] OTHER -> <<>>]

TransportError == ErrorOf(<<"transport">>)
DecodeError == ErrorOf(<<"json: ", "cannot decode">>)

\* fmt.Errorf("HTTP %d: %s", status, text)
APIError(status, text) == ErrorOf(<<"HTTP ">> \o Itoa(status) \o <<":", " ">> \o text)

\* doJSON failing only above status 300
doJSON_Above300(r, target) ==
    IF r.kind = "transport" THEN [err |-> TransportError, out |-> Zero(target)]
    ELSE IF r.status > 300
    THEN LET e == UnmarshalError(r.body.doc) IN
         IF e.ok /\ e.Error # <<>>
         THEN [err |-> APIError(r.status, e.Error), out |-> Zero(target)]
         ELSE [err |-> APIError(r.status, TrimSpace(r.body.raw)), out |-> Zero(target)]
    ELSE IF target # "none"
    THEN LET d == Unmarshal(r.body.doc, target) IN
         IF ~d.ok THEN [err |-> DecodeError, out |-> d.out]
         ELSE [err |-> NoErr, out |-> d.out]
    ELSE [err |-> NoErr, out |-> Zero(target)]

\* doJSON dropping the error of the decoding
doJSON_IgnoreDecodeError(r, target) ==
    IF r.kind = "transport" THEN [err |-> TransportError, out |-> Zero(target)]
    ELSE IF r.status >= 300
    THEN LET e == UnmarshalError(r.body.doc) IN
         IF e.ok /\ e.Error # <<>>
         THEN [err |-> APIError(r.status, e.Error), out |-> Zero(target)]
         ELSE [err |-> APIError(r.status, TrimSpace(r.body.raw)), out |-> Zero(target)]
    ELSE IF target # "none"
    THEN [err |-> NoErr, out |-> Unmarshal(r.body.doc, target).out]
    ELSE [err |-> NoErr, out |-> Zero(target)]

\* Client.doJSON: target "none" is a nil out
doJSON(r, target) ==
    IF r.kind = "transport" THEN [err |-> TransportError, out |-> Zero(target)]
    ELSE IF r.status >= 300
    THEN LET e == UnmarshalError(r.body.doc) IN
         IF e.ok /\ e.Error # <<>>
         THEN [err |-> APIError(r.status, e.Error), out |-> Zero(target)]
         ELSE [err |-> APIError(r.status, TrimSpace(r.body.raw)), out |-> Zero(target)]
    ELSE IF target # "none"
    THEN LET d == Unmarshal(r.body.doc, target) IN
         IF ~d.ok THEN [err |-> DecodeError, out |-> d.out]
         ELSE [err |-> NoErr, out |-> d.out]
    ELSE [err |-> NoErr, out |-> Zero(target)]

----------------------------------------------------------------------------
(* the client's operations *)

\* NewClient: the base URL the client keeps
NewClientBaseURL(b) == TrimRightSlash(IF b = <<>> THEN DefaultBaseURL ELSE b)

\* the hostname parameter set for every non-empty hostname
HostnameQuery_NoTrim(q, hostname) ==
    IF hostname # <<>> THEN QuerySet(q, "hostname", hostname) ELSE q

\* the hostname parameter, set when the trimmed hostname is not empty
HostnameQuery(q, hostname) ==
    IF TrimSpace(hostname) # <<>> THEN QuerySet(q, "hostname", hostname) ELSE q

UserInfoReq == newReq("GET", <<"/api/user_info">>, NilIface, EmptyQuery)

\* Client.CreateRandomAlias: the request it builds. body is a
\* *createRandomAliasRequest, nil unless the note is set and non-empty, and
\* is handed to newReq as an `any`.
CreateRandomAliasReq(hostname, mode, note) ==
    LET q1 == HostnameQuery(EmptyQuery, hostname)
        m == ToLower(TrimSpace(mode))
        q2 == IF m # <<>> THEN QuerySet(q1, "mode", m) ELSE q1
        body == IF ~note.isNil /\ note.s # <<>>
                THEN RandomBody(FALSE, note)
                ELSE RandomBody(TRUE, NilStr)
    IN newReq("POST", <<"/api/alias/random/new">>, body, q2)

\* Client.AliasOptions: the request it builds
AliasOptionsReq(hostname) ==
    newReq("GET", <<"/api/v5/alias/options">>, NilIface, HostnameQuery(EmptyQuery, hostname))

\* Client.CreateCustomAlias: the request it builds. body is a
\* createCustomAliasRequest value holding the arguments as given.
CreateCustomAliasReq(hostname, aliasPrefix, signedSuffix, mailboxIDs, note, name) ==
    newReq("POST", <<"/api/v3/alias/custom/new">>,
           CustomBody(aliasPrefix, signedSuffix, mailboxIDs, note, name),
           HostnameQuery(EmptyQuery, hostname))

MailboxesReq == newReq("GET", <<"/api/v2/mailboxes">>, NilIface, EmptyQuery)

RECURSIVE ScanDefault(_)
ScanDefault(ms) ==
    IF ms = <<>> THEN [found |-> FALSE, id |-> 0]
    ELSE IF Head(ms).default THEN [found |-> TRUE, id |-> Head(ms).id]
    ELSE ScanDefault(Tail(ms))

RECURSIVE ScanVerified(_)
ScanVerified(ms) ==
    IF ms = <<>> THEN [found |-> FALSE, id |-> 0]
    ELSE IF Head(ms).verified THEN [found |-> TRUE, id |-> Head(ms).id]
    ELSE ScanVerified(Tail(ms))

NoMailboxesError == ErrorOf(<<"no mailboxes", " found in account">>)

\* one pass taking the first mailbox that is default or verified
RECURSIVE ScanDefaultOrVerified(_)
ScanDefaultOrVerified(ms) ==
    IF ms = <<>> THEN [found |-> FALSE, id |-> 0]
    ELSE IF Head(ms).default \/ Head(ms).verified THEN [found |-> TRUE, id |-> Head(ms).id]
    ELSE ScanDefaultOrVerified(Tail(ms))

DefaultMailboxID_SinglePass(r) ==
    LET m == doJSON(r, "Mailboxes") IN
    IF ~m.err.isNil THEN [err |-> m.err, val |-> 0]
    ELSE IF Len(m.out) = 0 THEN [err |-> NoMailboxesError, val |-> 0]
    ELSE IF ScanDefaultOrVerified(m.out).found
         THEN [err |-> NoErr, val |-> ScanDefaultOrVerified(m.out).id]
    ELSE [err |-> NoErr, val |-> m.out[1].id]

\* no check of the empty list: the scans fall through to ID 0
DefaultMailboxID_NoEmptyCheck(r) ==
    LET m == doJSON(r, "Mailboxes") IN
    IF ~m.err.isNil THEN [err |-> m.err, val |-> 0]
    ELSE IF ScanDefault(m.out).found THEN [err |-> NoErr, val |-> ScanDefault(m.out).id]
    ELSE IF ScanVerified(m.out).found THEN [err |-> NoErr, val |-> ScanVerified(m.out).id]
    ELSE [err |-> NoErr, val |-> IF Len(m.out) = 0 THEN 0 ELSE m.out[1].id]

\* Client.DefaultMailboxID, given the response to its Mailboxes request
DefaultMailboxID(r) ==
    LET m == doJSON(r, "Mailboxes") IN
    IF ~m.err.isNil THEN [err |-> m.err, val |-> 0]
    ELSE IF Len(m.out) = 0 THEN [err |-> NoMailboxesError, val |-> 0]
    ELSE IF ScanDefault(m.out).found THEN [err |-> NoErr, val |-> ScanDefault(m.out).id]
    ELSE IF ScanVerified(m.out).found THEN [err |-> NoErr, val |-> ScanVerified(m.out).id]
    ELSE [err |-> NoErr, val |-> m.out[1].id]

\* the delete addressed to the listing's path
DeleteAliasReq_ListPath(aliasID, hostname) ==
    newReq("DELETE", <<"/api/v2/aliases/">> \o Itoa(aliasID), NilIface, EmptyQuery)

\* Client.DeleteAlias: the request it builds. The method takes the alias ID
\* only; a hostname given by a caller has no parameter to go to.
DeleteAliasReq(aliasID, hostname) ==
    newReq("DELETE", <<"/api/aliases/">> \o Itoa(aliasID), NilIface, EmptyQuery)

\* the service's first page index
FirstPage == 0

\* a page skipped at each turn
NextPage_Skip(p) == p + 2

NextPage(p) == p + 1

\* Client.ListAliases: the request it builds
ListAliasesReq(p, hostname) ==
    newReq("GET", <<"/api/v2/aliases">>, NilIface,
           HostnameQuery(QuerySet(EmptyQuery, "page_id", Itoa(p)), hostname))

\* the first alias of a page whose email is the given one
RECURSIVE FindByEmail(_, _)
FindByEmail(as, email) ==
    IF as = <<>> THEN [found |-> FALSE, id |-> 0]
    ELSE IF Head(as).email = email THEN [found |-> TRUE, id |-> Head(as).id]
    ELSE FindByEmail(Tail(as), email)

\* an empty page reported as a failure
ScanPage_NotFoundError(r, email) ==
    LET l == doJSON(r, "Aliases") IN
    IF ~l.err.isNil THEN [next |-> "fail", err |-> l.err, out |-> l.out]
    ELSE IF Len(l.out) = 0
         THEN [next |-> "fail", err |-> ErrorOf(<<"alias not found">>), out |-> l.out]
    ELSE IF FindByEmail(l.out, email).found THEN [next |-> "delete", err |-> NoErr, out |-> l.out]
    ELSE [next |-> "continue", err |-> NoErr, out |-> l.out]

\* Client.DeleteAliasByEmail, one turn of its loop, given the response to the
\* page's listing: fail, finish (nothing left), delete the match, or go on
ScanPage(r, email) ==
    LET l == doJSON(r, "Aliases") IN
    IF ~l.err.isNil THEN [next |-> "fail", err |-> l.err, out |-> l.out]
    ELSE IF Len(l.out) = 0 THEN [next |-> "finish", err |-> NoErr, out |-> l.out]
    ELSE IF FindByEmail(l.out, email).found THEN [next |-> "delete", err |-> NoErr, out |-> l.out]
    ELSE [next |-> "continue", err |-> NoErr, out |-> l.out]

----------------------------------------------------------------------------
(* the state machine *)

APIKeys == {<<>>, <<"k">>}
BaseURLInputs == {<<>>, <<"http://h", "/">>}
Hostnames == {<<>>, <<" ">>, <<"ex.com">>, <<" ", "ex.com">>}
Modes == {<<>>, <<" ">>, <<"W", "ord">>, <<"U", "uid", " ">>}
Notes == {NilStr, PtrTo(<<>>), PtrTo(<<"n">>)}

Prefixes == {<<>>, <<"p">>}
MailboxIDLists == {NilInts, IntsOf(<<>>), IntsOf(<<2>>), IntsOf(<<2, 1>>), IntsOf(<<1, 2>>)}
Names == {NilStr, PtrTo(<<"N", "<">>)}

Call(op, hostname, mode, note, aliasID, email) ==
    [op |-> op, hostname |-> hostname, mode |-> mode, note |-> note,
     aliasID |-> aliasID, email |-> email,
     aliasPrefix |-> <<>>, signedSuffix |-> <<>>, mailboxIDs |-> NilInts, name |-> NilStr,
     baseURL |-> <<>>]

\* a call of CreateCustomAlias
CustomCall(hostname, aliasPrefix, signedSuffix, mailboxIDs, note, name) ==
    [Call("CreateCustomAlias", hostname, <<>>, note, 0, <<>>)
       EXCEPT !.aliasPrefix = aliasPrefix, !.signedSuffix = signedSuffix,
              !.mailboxIDs = mailboxIDs, !.name = name]

NoCall == Call("none", <<>>, <<>>, NilStr, 0, <<>>)
NoResponse == [kind |-> "none", status |-> 0, body |-> MkBody(PlainDoc("invalid", <<>>), FALSE)]
NoResult == [err |-> NoErr, val |-> <<>>]

\* the flags of the custom command
Flags(key, hostname, prefix, signedSuffix, suffix, mailboxIDsCSV, note, name) ==
    [apiKey |-> key, hostname |-> hostname, prefix |-> prefix, signedSuffix |-> signedSuffix,
     suffix |-> suffix, mailboxIDsCSV |-> mailboxIDsCSV, note |-> note, name |-> name]

NoFlags == Flags(<<>>, <<>>, <<>>, <<>>, <<>>, <<>>, <<>>, <<>>)

\* runCustom's locals: ss, ids, opt.Suffixes as decoded, the suffixes in the
\* order printed, the line read from stdin, what was written to stderr, and
\* the exit code (-1: running)
Run(flags, ss, ids, stderr, exit) ==
    [flags |-> flags, ss |-> ss, ids |-> ids, opt |-> <<>>, shown |-> <<>>, line |-> <<>>,
     stderr |-> stderr, exit |-> exit]

NoRun == Run(NoFlags, <<>>, NilInts, "", -1)

----------------------------------------------------------------------------
(* configuration: pkg/config *)

ConfigDefaultBaseURL == <<"https://app.simplelogin.io">>

IsJSONSpace(c) == c \in {" ", "\n", "\n  ", "\t"}

\* the position of the first token at or after i that is not whitespace
RECURSIVE SkipSpace(_, _)
SkipSpace(t, i) ==
    IF i > Len(t) \/ ~IsJSONSpace(t[i]) THEN i ELSE SkipSpace(t, i + 1)

\* json.MarshalIndent(cfg.BaseConfig, "", "  ")
MarshalConfig(base) ==
    <<"{", "\n  ", "\"base_url\":", " ">> \o Quote(base) \o <<"\n", "}">>

\* json.Unmarshal(b, &cfg.BaseConfig): base is the BaseURL held before; it
\* is kept when the bytes are not JSON, when base_url is not a string, and
\* when the object has no base_url
UnmarshalConfig(t, base) ==
    LET open == SkipSpace(t, 1)
        key == SkipSpace(t, open + 1)
        val == SkipSpace(t, key + 1)
        str == ReadString(t, val)
        close == SkipSpace(t, IF str.ok THEN str.next ELSE val + 1)
    IN IF open > Len(t) \/ t[open] # "{" \/ key > Len(t) THEN [ok |-> FALSE, base |-> base]
       ELSE IF t[key] = "}"
       THEN [ok |-> SkipSpace(t, key + 1) > Len(t), base |-> base]
       ELSE IF t[key] # "\"base_url\":" \/ val > Len(t) THEN [ok |-> FALSE, base |-> base]
       ELSE IF close > Len(t) \/ t[close] # "}" \/ SkipSpace(t, close + 1) <= Len(t)
       THEN [ok |-> FALSE, base |-> base]
       ELSE IF str.ok THEN [ok |-> TRUE, base |-> str.val]
       ELSE [ok |-> FALSE, base |-> base]

\* the config file: its bytes, and the base_url they spell, if any
File(data, hasBase, base) == [exists |-> TRUE, data |-> data, hasBase |-> hasBase, base |-> base]
NoFile == [exists |-> FALSE, data |-> <<>>, hasBase |-> FALSE, base |-> <<>>]

\* the keyring entry of the service
NoKey == [has |-> FALSE, key |-> <<>>]
StoredKeyOf(key) == [has |-> TRUE, key |-> key]

SecureConfig(key, base) == [APIKey |-> key, BaseURL |-> base]

\* the surroundings of the process, what was passed to Save, and what Save
\* and Load returned
Config(envKey, envBase, dirOK, keyringOK, file, keyring) ==
    [envKey |-> envKey, envBase |-> envBase, dirOK |-> dirOK, keyringOK |-> keyringOK,
     file |-> file, keyring |-> keyring,
     saveArg |-> SecureConfig(<<>>, <<>>), saveErr |-> "",
     loaded |-> SecureConfig(<<>>, <<>>), loadErr |-> ""]

NoConfig == Config(<<>>, <<>>, TRUE, TRUE, NoFile, NoKey)

\* Save: the file and keyring it leaves and the error it returns. fault is
\* what the file system does: "none", "open" (MkdirAll or OpenFile fails)
\* or "write" (the file is truncated and the write fails)
Save(c, cfg, fault) ==
    IF ~c.dirOK THEN [file |-> c.file, keyring |-> c.keyring, err |-> "config dir"]
    ELSE IF fault = "open" THEN [file |-> c.file, keyring |-> c.keyring, err |-> "open"]
    ELSE LET file == IF fault = "write" THEN File(<<>>, FALSE, <<>>)
                     ELSE File(MarshalConfig(cfg.BaseURL), TRUE, cfg.BaseURL)
             err == IF fault = "write" THEN "write" ELSE ""
         IN IF cfg.APIKey # <<>>
            THEN IF ~c.keyringOK THEN [file |-> file, keyring |-> c.keyring, err |-> "keyring"]
                 ELSE [file |-> file, keyring |-> StoredKeyOf(cfg.APIKey), err |-> err]
            ELSE [file |-> file, keyring |-> c.keyring, err |-> err]

\* Load with the file read after the environment, and winning
Load_FileOverEnv(c) ==
    LET key == IF c.envKey # <<>> THEN c.envKey
               ELSE IF c.keyringOK /\ c.keyring.has THEN c.keyring.key ELSE <<>>
        env == IF c.envBase = <<>> THEN ConfigDefaultBaseURL ELSE c.envBase
        base == IF c.file.exists THEN UnmarshalConfig(c.file.data, env).base ELSE env
    IN IF ~c.dirOK THEN [cfg |-> SecureConfig(key, env), err |-> "config dir"]
       ELSE [cfg |-> SecureConfig(key, IF base = <<>> THEN ConfigDefaultBaseURL ELSE base),
             err |-> ""]

\* Load: the configuration and the error it returns
Load(c) ==
    LET base0 == IF c.envBase = <<>> THEN ConfigDefaultBaseURL ELSE c.envBase
        key0 == IF c.keyringOK /\ c.keyring.has THEN c.keyring.key ELSE <<>>
        base1 == IF c.file.exists THEN UnmarshalConfig(c.file.data, base0).base ELSE base0
        key1 == IF c.envKey # <<>> THEN c.envKey ELSE key0
        base2 == IF c.envBase # <<>> THEN c.envBase ELSE base1
        base3 == IF base2 = <<>> THEN ConfigDefaultBaseURL ELSE base2
    IN IF ~c.dirOK THEN [cfg |-> SecureConfig(key0, base0), err |-> "config dir"]
       ELSE [cfg |-> SecureConfig(key1, base3), err |-> ""]

\* the config files found at start
Files ==
    {NoFile,
     File(<<"oops">>, FALSE, <<>>),
     File(<<"{", "}">>, FALSE, <<>>),
     File(<<"{", "\"base_url\":", "5", "}">>, FALSE, <<>>),
     File(MarshalConfig(<<>>), TRUE, <<>>),
     File(MarshalConfig(<<"http://f">>), TRUE, <<"http://f">>)}

SavedKeys == {<<>>, <<"k">>}
SavedBaseURLs == {<<>>, <<"http://h">>, <<"http://h", "/", "\"", "<">>}

InitConfig ==
    /\ baseURL = <<>>
    /\ apiKey = <<>>
    /\ pc = "idle"
    /\ call = NoCall
    /\ sent = <<>>
    /\ resp = NoResponse
    /\ listed = <<>>
    /\ page = FirstPage
    /\ result = NoResult
    /\ run = NoRun
    /\ config \in {Config(ek, eb, d, kr, f, k) :
                     ek \in {<<>>, <<"ek">>}, eb \in {<<>>, <<"http://e">>},
                     d \in BOOLEAN, kr \in BOOLEAN, f \in Files,
                     k \in {NoKey, StoredKeyOf(<<"sk">>)}}

\* config.Save
SaveOp ==
    /\ pc = "idle"
    /\ \E key \in SavedKeys, base \in SavedBaseURLs, fault \in {"none", "open", "write"} :
         LET s == Save(config, SecureConfig(key, base), fault) IN
         config' = [config EXCEPT !.file = s.file, !.keyring = s.keyring,
                                  !.saveArg = SecureConfig(key, base), !.saveErr = s.err]
    /\ call' = Call("Save", <<>>, <<>>, NilStr, 0, <<>>)
    /\ pc' = "saved"
    /\ UNCHANGED <<baseURL, apiKey, sent, resp, listed, page, result, run>>

\* config.Load, at the start of a process or after a Save
LoadOp ==
    /\ pc \in {"idle", "saved"}
    /\ config' = [config EXCEPT !.loaded = Load(config).cfg, !.loadErr = Load(config).err]
    /\ call' = Call("Load", <<>>, <<>>, NilStr, 0, <<>>)
    /\ pc' = IF pc = "saved" THEN "reloaded" ELSE "loaded"
    /\ UNCHANGED <<baseURL, apiKey, sent, resp, listed, page, result, run>>

NextConfig ==
    \/ SaveOp
    \/ LoadOp

SpecConfig == InitConfig /\ [][NextConfig]_vars

----------------------------------------------------------------------------
(* the client's state machine *)

\* one operation is run per behaviour, as one command is per process
Ready == pc = "idle"

Init ==
    /\ \E b \in BaseURLInputs : baseURL = NewClientBaseURL(b)
    /\ apiKey \in APIKeys
    /\ pc = "idle"
    /\ call = NoCall
    /\ sent = <<>>
    /\ resp = NoResponse
    /\ listed = <<>>
    /\ page = FirstPage
    /\ result = NoResult
    /\ run = NoRun
    /\ config = NoConfig

\* Client.UserInfo
UserInfo ==
    /\ Ready
    /\ \E r \in Responses("UserInfo") :
         /\ resp' = r
         /\ result' = [err |-> doJSON(r, "UserInfo").err, val |-> doJSON(r, "UserInfo").out]
    /\ call' = Call("UserInfo", <<>>, <<>>, NilStr, 0, <<>>)
    /\ sent' = <<UserInfoReq>>
    /\ pc' = "done"
    /\ listed' = <<>>
    /\ page' = FirstPage
    /\ UNCHANGED <<config, baseURL, apiKey, run>>

\* Client.CreateRandomAlias
CreateRandomAlias ==
    /\ Ready
    /\ \E hostname \in Hostnames, mode \in Modes, note \in Notes :
         /\ call' = Call("CreateRandomAlias", hostname, mode, note, 0, <<>>)
         /\ sent' = <<CreateRandomAliasReq(hostname, mode, note)>>
    /\ \E r \in Responses("Alias") :
         /\ resp' = r
         /\ result' = [err |-> doJSON(r, "Alias").err, val |-> doJSON(r, "Alias").out]
    /\ pc' = "done"
    /\ listed' = <<>>
    /\ page' = FirstPage
    /\ UNCHANGED <<config, baseURL, apiKey, run>>

\* Client.AliasOptions
AliasOptions ==
    /\ Ready
    /\ \E hostname \in Hostnames :
         /\ call' = Call("AliasOptions", hostname, <<>>, NilStr, 0, <<>>)
         /\ sent' = <<AliasOptionsReq(hostname)>>
    /\ \E r \in Responses("Options") :
         /\ resp' = r
         /\ result' = [err |-> doJSON(r, "Options").err, val |-> doJSON(r, "Options").out]
    /\ pc' = "done"
    /\ listed' = <<>>
    /\ page' = FirstPage
    /\ UNCHANGED <<config, baseURL, apiKey, run>>

\* Client.CreateCustomAlias
CreateCustomAlias ==
    /\ Ready
    /\ \E hostname \in Hostnames, aliasPrefix \in Prefixes, signedSuffix \in SignedSuffixes,
          mailboxIDs \in MailboxIDLists, note \in Notes, name \in Names :
         /\ call' = CustomCall(hostname, aliasPrefix, signedSuffix, mailboxIDs, note, name)
         /\ sent' = <<CreateCustomAliasReq(hostname, aliasPrefix, signedSuffix,
                                           mailboxIDs, note, name)>>
    /\ \E r \in CreateResponses :
         /\ resp' = r
         /\ result' = [err |-> doJSON(r, "Alias").err, val |-> doJSON(r, "Alias").out]
    /\ pc' = "done"
    /\ listed' = <<>>
    /\ page' = FirstPage
    /\ UNCHANGED <<config, baseURL, apiKey, run>>

\* Client.DefaultMailboxID (with the Client.Mailboxes call it makes)
DefaultMailboxIDOp ==
    /\ Ready
    /\ \E r \in Responses("Mailboxes") :
         /\ resp' = r
         /\ result' = DefaultMailboxID(r)
    /\ call' = Call("DefaultMailboxID", <<>>, <<>>, NilStr, 0, <<>>)
    /\ sent' = <<MailboxesReq>>
    /\ pc' = "done"
    /\ listed' = <<>>
    /\ page' = FirstPage
    /\ UNCHANGED <<config, baseURL, apiKey, run>>

\* Client.DeleteAlias
DeleteAlias ==
    /\ Ready
    /\ \E aliasID \in AliasIDs \cup {99}, hostname \in {<<>>, <<"ex.com">>} :
         /\ call' = Call("DeleteAlias", hostname, <<>>, NilStr, aliasID, <<>>)
         /\ sent' = <<DeleteAliasReq(aliasID, hostname)>>
    /\ \E r \in Responses("none") :
         /\ resp' = r
         /\ result' = [err |-> doJSON(r, "none").err, val |-> <<>>]
    /\ pc' = "done"
    /\ listed' = <<>>
    /\ page' = FirstPage
    /\ UNCHANGED <<config, baseURL, apiKey, run>>

\* Client.DeleteAliasByEmail is called
DeleteAliasByEmailStart ==
    /\ Ready
    /\ \E hostname \in {<<>>, <<"ex.com">>}, email \in Emails :
         call' = Call("DeleteAliasByEmail", hostname, <<>>, NilStr, 0, email)
    /\ sent' = <<>>
    /\ resp' = NoResponse
    /\ result' = NoResult
    /\ listed' = <<>>
    /\ page' = FirstPage
    /\ pc' = "list"
    /\ UNCHANGED <<config, baseURL, apiKey, run>>

\* Client.DeleteAliasByEmail lists the next page and scans it. Past MaxPage
\* the server has nothing more to list.
DeleteAliasByEmailList ==
    /\ pc = "list"
    /\ \E r \in Responses("Aliases") :
         LET s == ScanPage(r, call.email) IN
         /\ page < MaxPage \/ s.next # "continue"
         /\ resp' = r
         /\ listed' = s.out
         /\ sent' = Append(sent, ListAliasesReq(page, call.hostname))
         /\ CASE s.next = "fail" ->
                   pc' = "done" /\ result' = [err |-> s.err, val |-> <<>>] /\ page' = page
              [] s.next = "finish" ->
                   pc' = "done" /\ result' = [err |-> NoErr, val |-> <<>>] /\ page' = page
              [] s.next = "delete" ->
                   pc' = "delete" /\ result' = result /\ page' = page
              [] OTHER ->
                   pc' = "list" /\ result' = result /\ page' = NextPage(page)
    /\ UNCHANGED <<config, baseURL, apiKey, run, call>>

\* Client.DeleteAliasByEmail deletes the alias it found
DeleteAliasByEmailDelete ==
    /\ pc = "delete"
    /\ \E r \in DeleteResponses :
         /\ resp' = r
         /\ result' = [err |-> doJSON(r, "none").err, val |-> <<>>]
    /\ sent' = Append(sent, DeleteAliasReq(FindByEmail(listed, call.email).id, call.hostname))
    /\ pc' = "done"
    /\ UNCHANGED <<config, baseURL, apiKey, run, call, listed, page>>

----------------------------------------------------------------------------
(* the custom command *)

SignedSuffixFlags == {<<>>, <<" ">>, <<"s", "1">>, <<" ", "s", "1", "\n">>}
SuffixFlags == {<<>>, <<" ">>, <<".", "a">>, <<".", "A">>, <<".", "a", " ">>}
MailboxIDsCSVs == {<<>>, <<" ">>, <<",">>, <<"2", ",", " ", "1">>, <<"x">>}
\* --hostname, --note and --name
Extras ==
    {[hostname |-> <<>>, note |-> <<>>, name |-> <<>>],
     [hostname |-> <<"ex.com">>, note |-> <<"n">>, name |-> <<" ">>]}

CustomFlags ==
    {Flags(k, e.hostname, p, ss, x, csv, e.note, e.name) :
       k \in APIKeys, p \in Prefixes, ss \in SignedSuffixFlags, x \in SuffixFlags,
       csv \in MailboxIDsCSVs, e \in Extras}

\* the lines typed at the prompt; the empty one is an end of input
Lines ==
    {<<>>, <<"1", "\n">>, <<" ", "2", "\n">>, <<"+", "1", "\n">>,
     <<"0", "\n">>, <<"3", "\n">>, <<"x", "\n">>}

\* the responses tried for the options request of the command
OptionsResponses ==
    {TransportFailure,
     [kind |-> "http", status |-> 200, body |-> MkBody(PlainDoc("invalid", <<"oops">>), FALSE)],
     [kind |-> "http", status |-> 400, body |-> MkBody(ErrorDoc(TRUE, <<"bad input">>), FALSE)]}
    \cup {[kind |-> "http", status |-> 200, body |-> MkBody(d, FALSE)] : d \in DataDocs("Options")}

\* the responses tried for the mailbox listing of the command
MailboxResponses ==
    {TransportFailure,
     [kind |-> "http", status |-> 200, body |-> MkBody(PlainDoc("object", <<>>), FALSE)],
     [kind |-> "http", status |-> 200,
      body |-> MkBody(Doc("object", <<>>, FALSE, FALSE, <<>>,
                          <<[id |-> 2, email |-> <<"b">>, default |-> FALSE, verified |-> TRUE]>>,
                          <<>>, 0, <<>>), FALSE)],
     [kind |-> "http", status |-> 200,
      body |-> MkBody(Doc("object", <<>>, FALSE, FALSE, <<>>,
                          <<[id |-> 2, email |-> <<"b">>, default |-> FALSE, verified |-> TRUE],
                            [id |-> 1, email |-> <<"a">>, default |-> TRUE, verified |-> TRUE]>>,
                          <<>>, 0, <<>>), FALSE)]}

\* the suffixes left in the order received
SortedOrders_Unsorted(l) == {l}

\* sort.Slice by Suffix: the sort is not stable, so entries of equal suffix
\* come out in any order
SortedOrders(l) ==
    {o \in {[i \in 1..Len(l) |-> l[pi[i]]] : pi \in Permutations(1..Len(l))} :
       \A i, j \in 1..Len(l) : i < j => ~StrLess(o[j].suffix, o[i].suffix)}

\* the signed suffix of the last entry whose suffix is the one asked for
RECURSIVE FirstMatch_Last(_, _)
FirstMatch_Last(suffixes, suffix) ==
    IF suffixes = <<>> THEN <<>>
    ELSE IF suffixes[Len(suffixes)].suffix = suffix THEN suffixes[Len(suffixes)].signedSuffix
    ELSE FirstMatch_Last(SubSeq(suffixes, 1, Len(suffixes) - 1), suffix)

\* the signed suffix of the first entry whose suffix is the one asked for
RECURSIVE FirstMatch(_, _)
FirstMatch(suffixes, suffix) ==
    IF suffixes = <<>> THEN <<>>
    ELSE IF Head(suffixes).suffix = suffix THEN Head(suffixes).signedSuffix
    ELSE FirstMatch(Tail(suffixes), suffix)

\* the IDs appended in front
RECURSIVE ParseIDs_Reversed(_)
ParseIDs_Reversed(parts) ==
    IF parts = <<>> THEN [ok |-> TRUE, v |-> <<>>]
    ELSE LET p == TrimSpace(Head(parts))
             rest == ParseIDs_Reversed(Tail(parts))
         IN IF p = <<>> THEN rest
            ELSE IF ~Atoi(p).ok THEN [ok |-> FALSE, v |-> <<>>]
            ELSE IF ~rest.ok THEN rest
            ELSE [ok |-> TRUE, v |-> rest.v \o <<Atoi(p).val>>]

\* the loop over the parts of --mailbox-ids: each part trimmed, blank parts
\* skipped, the first part that is not a number an error
RECURSIVE ParseIDs(_)
ParseIDs(parts) ==
    IF parts = <<>> THEN [ok |-> TRUE, v |-> <<>>]
    ELSE LET p == TrimSpace(Head(parts))
             rest == ParseIDs(Tail(parts))
         IN IF p = <<>> THEN rest
            ELSE IF ~Atoi(p).ok THEN [ok |-> FALSE, v |-> <<>>]
            ELSE IF ~rest.ok THEN rest
            ELSE [ok |-> TRUE, v |-> <<Atoi(p).val>> \o rest.v]

\* ids is nil until something is appended to it
AppendedIDs(v) == IF v = <<>> THEN NilInts ELSE IntsOf(v)

\* runCustom once ss is known: the mailbox IDs are parsed from the flag, or
\* the default mailbox is to be asked for
AfterSuffix(f) ==
    IF TrimSpace(f.mailboxIDsCSV) # <<>>
    THEN LET p == ParseIDs(Split(f.mailboxIDsCSV, ",")) IN
         IF ~p.ok THEN [next |-> "done", ids |-> NilInts, stderr |-> "invalid mailbox id", exit |-> 2]
         ELSE [next |-> "create", ids |-> AppendedIDs(p.v), stderr |-> "", exit |-> -1]
    ELSE [next |-> "mailbox", ids |-> NilInts, stderr |-> "", exit |-> -1]

\* notePtr and namePtr
FlagPtr(v) == IF TrimSpace(v) # <<>> THEN PtrTo(v) ELSE NilStr

\* the CreateCustomAlias call of runCustom
CustomCreateReq(f, ss, ids) ==
    CreateCustomAliasReq(f.hostname, f.prefix, ss, ids, FlagPtr(f.note), FlagPtr(f.name))

\* runCustom goes on from the locals r with the signed suffix ss
Proceed(r, ss) ==
    /\ pc' = AfterSuffix(r.flags).next
    /\ run' = [r EXCEPT !.ss = ss, !.ids = AfterSuffix(r.flags).ids,
                        !.stderr = AfterSuffix(r.flags).stderr,
                        !.exit = AfterSuffix(r.flags).exit]

\* a return that reports success whatever happened
Exit_Zero(code, stderr) ==
    /\ pc' = "done"
    /\ run' = [run EXCEPT !.exit = 0, !.stderr = stderr]

\* runCustom returns
Exit(code, stderr) ==
    /\ pc' = "done"
    /\ run' = [run EXCEPT !.exit = code, !.stderr = stderr]

\* no client yet: the command builds its own from the flags
InitCustom ==
    /\ baseURL = NewClientBaseURL(<<>>)
    /\ apiKey = <<>>
    /\ pc = "idle"
    /\ call = NoCall
    /\ sent = <<>>
    /\ resp = NoResponse
    /\ listed = <<>>
    /\ page = FirstPage
    /\ result = NoResult
    /\ run = NoRun
    /\ config = NoConfig

\* the flag taken as it was typed
SuppliedSignedSuffix_Raw(f) == f.signedSuffix

\* ss, the signed suffix of the flag
SuppliedSignedSuffix(f) == TrimSpace(f.signedSuffix)

\* runCustom up to its first request
runCustomStart ==
    /\ Ready
    /\ \E f \in CustomFlags :
         /\ call' = Call("runCustom", f.hostname, <<>>, NilStr, 0, <<>>)
         /\ apiKey' = f.apiKey
         /\ IF f.apiKey = <<>>
            THEN pc' = "done" /\ run' = Run(f, <<>>, NilInts, "missing API key", 2)
            ELSE IF f.prefix = <<>>
            THEN pc' = "done" /\ run' = Run(f, <<>>, NilInts, "prefix is required", 2)
            ELSE IF SuppliedSignedSuffix(f) = <<>>
            THEN pc' = "options" /\ run' = Run(f, <<>>, NilInts, "", -1)
            ELSE Proceed(Run(f, <<>>, NilInts, "", -1), SuppliedSignedSuffix(f))
    /\ UNCHANGED <<config, baseURL, sent, resp, listed, page, result>>

\* runCustom asks for the alias options: to print them, or to look the
\* plain suffix up
runCustomOptions ==
    /\ pc = "options"
    /\ \E r \in OptionsResponses :
         LET o == doJSON(r, "Options")
             f == run.flags
         IN /\ resp' = r
            /\ result' = [err |-> o.err, val |-> o.out]
            /\ IF ~o.err.isNil THEN Exit(1, "error")
               ELSE IF TrimSpace(f.suffix) = <<>>
               THEN IF Len(o.out) = 0
                    THEN pc' = "done"
                         /\ run' = [run EXCEPT !.exit = 1, !.stderr = "no suffixes available"]
                    ELSE \E order \in SortedOrders(o.out) :
                           pc' = "select" /\ run' = [run EXCEPT !.opt = o.out, !.shown = order]
               ELSE IF FirstMatch(o.out, f.suffix) = <<>>
               THEN pc' = "done"
                    /\ run' = [run EXCEPT !.opt = o.out, !.exit = 2, !.stderr = "suffix not found"]
               ELSE Proceed([run EXCEPT !.opt = o.out], FirstMatch(o.out, f.suffix))
    /\ sent' = Append(sent, AliasOptionsReq(run.flags.hostname))
    /\ UNCHANGED <<config, baseURL, apiKey, call, listed, page>>

\* runCustom reads the choice typed at the prompt
runCustomSelect ==
    /\ pc = "select"
    /\ \E line \in Lines :
         LET idx == Atoi(TrimSpace(line)) IN
         IF ~idx.ok \/ idx.val < 1 \/ idx.val > Len(run.shown)
         THEN pc' = "done" /\ run' = [run EXCEPT !.line = line, !.exit = 2,
                                                 !.stderr = "invalid selection"]
         ELSE Proceed([run EXCEPT !.line = line], run.shown[idx.val].signedSuffix)
    /\ UNCHANGED <<config, baseURL, apiKey, call, sent, resp, listed, page, result>>

\* runCustom asks for the default mailbox
runCustomMailbox ==
    /\ pc = "mailbox"
    /\ \E r \in MailboxResponses :
         /\ resp' = r
         /\ result' = DefaultMailboxID(r)
         /\ IF ~DefaultMailboxID(r).err.isNil
            THEN Exit(1, "failed to determine default mailbox")
            ELSE pc' = "create" /\ run' = [run EXCEPT !.ids = IntsOf(<<DefaultMailboxID(r).val>>)]
    /\ sent' = Append(sent, MailboxesReq)
    /\ UNCHANGED <<config, baseURL, apiKey, call, listed, page>>

\* runCustom creates the alias
runCustomCreate ==
    /\ pc = "create"
    /\ \E r \in CreateResponses :
         /\ resp' = r
         /\ result' = [err |-> doJSON(r, "Alias").err, val |-> doJSON(r, "Alias").out]
         /\ IF ~doJSON(r, "Alias").err.isNil THEN Exit(1, "error") ELSE Exit(0, "")
    /\ sent' = Append(sent, CustomCreateReq(run.flags, run.ss, run.ids))
    /\ UNCHANGED <<config, baseURL, apiKey, call, listed, page>>

NextCustom ==
    \/ runCustomStart
    \/ runCustomOptions
    \/ runCustomSelect
    \/ runCustomMailbox
    \/ runCustomCreate

SpecCustom == InitCustom /\ [][NextCustom]_vars

----------------------------------------------------------------------------
(* newReq on its own *)

\* a client built on a base URL that may carry a query string of its own
InitNewReq ==
    /\ baseURL \in {<<"http://h">>, <<"http://h", "/x", "?", "v", "=", "1">>}
    /\ apiKey \in APIKeys
    /\ pc = "idle"
    /\ call = NoCall
    /\ sent = <<>>
    /\ resp = NoResponse
    /\ listed = <<>>
    /\ page = FirstPage
    /\ result = NoResult
    /\ run = NoRun
    /\ config = NoConfig

Paths ==
    {<<"/p">>, <<"/p", "?">>, <<"/p", "?", "x", "=", "1">>,
     <<"/p", "?", "x", "=", "1", "&", "mode", "=", "w">>}

\* url.Values over the keys the client sets
Queries ==
    UNION {[ks -> {<<"a">>, <<"b", " ">>}] : ks \in SUBSET {"hostname", "mode", "page_id"}}

\* Client.newReq called with a path and a set of parameters
NewReqCall ==
    /\ Ready
    /\ \E path \in Paths, query \in Queries :
         sent' = <<newReq("GET", path, NilIface, query)>>
    /\ call' = Call("newReq", <<>>, <<>>, NilStr, 0, <<>>)
    /\ pc' = "done"
    /\ UNCHANGED <<config, baseURL, apiKey, run, resp, listed, page, result>>

NextNewReq == NewReqCall

SpecNewReq == InitNewReq /\ [][NextNewReq]_vars

----------------------------------------------------------------------------
(* NewClient on its own *)

\* the base URLs handed to NewClient
RawBaseURLs == SeqsUpTo({"/", "http://h", "x"}, MaxURLLen)

\* no client yet
InitNewClient ==
    /\ baseURL = <<>>
    /\ apiKey = <<>>
    /\ pc = "idle"
    /\ call = NoCall
    /\ sent = <<>>
    /\ resp = NoResponse
    /\ listed = <<>>
    /\ page = FirstPage
    /\ result = NoResult
    /\ run = NoRun
    /\ config = NoConfig

\* NewClient
NewClientCall ==
    /\ Ready
    /\ \E b \in RawBaseURLs, k \in APIKeys :
         /\ call' = [Call("NewClient", <<>>, <<>>, NilStr, 0, <<>>) EXCEPT !.baseURL = b]
         /\ baseURL' = NewClientBaseURL(b)
         /\ apiKey' = k
    /\ pc' = "done"
    /\ UNCHANGED <<config, sent, resp, listed, page, result, run>>

NextNewClient == NewClientCall

SpecNewClient == InitNewClient /\ [][NextNewClient]_vars

----------------------------------------------------------------------------
(* the client's operations as steps *)

Next ==
    \/ UserInfo
    \/ AliasOptions
    \/ CreateRandomAlias
    \/ CreateCustomAlias
    \/ DefaultMailboxIDOp
    \/ DeleteAlias
    \/ DeleteAliasByEmailStart
    \/ DeleteAliasByEmailList
    \/ DeleteAliasByEmailDelete

Spec == Init /\ [][Next]_vars

\* the running DeleteAliasByEmail is not suspended for ever between requests
FairSpec == Spec /\ WF_vars(DeleteAliasByEmailList) /\ WF_vars(DeleteAliasByEmailDelete)

----------------------------------------------------------------------------
(* properties *)

Done(op) == pc = "done" /\ call.op = op

Min(S) == CHOOSE x \in S : \A y \in S : x <= y
Max(S) == CHOOSE x \in S : \A y \in S : x >= y

HasHeader(r, name) == name \in DOMAIN r.header

\* C1: every request the client builds carries no Authentication header when
\* the API key is empty, and an Authentication header equal to the key when
\* it is not.
C1_AuthHeaderIsTheKey ==
    \A i \in 1..Len(sent) :
        /\ apiKey = <<>> => ~HasHeader(sent[i], "Authentication")
        /\ apiKey # <<>> =>
             HasHeader(sent[i], "Authentication") /\ sent[i].header["Authentication"] = apiKey

\* a request with a header set, and no Authentication among them, under an empty key
C1_Witness ==
    /\ apiKey = <<>>
    /\ Len(sent) > 0
    /\ HasHeader(sent[1], "Content-Type")
    /\ ~HasHeader(sent[1], "Authentication")

\* the mailbox list a successful listing response carries
ListedMailboxes ==
    IF resp.body.doc.kind = "object" THEN resp.body.doc.mailboxes ELSE <<>>

ListingDecodes == resp.kind = "http" /\ resp.status < 300 /\ resp.body.doc.kind \in {"object", "null"}

\* the three-tier preference: first default, else first verified, else first
PreferredMailbox(ms) ==
    LET D == {i \in 1..Len(ms) : ms[i].default}
        V == {i \in 1..Len(ms) : ms[i].verified}
    IN IF D # {} THEN ms[Min(D)].id
       ELSE IF V # {} THEN ms[Min(V)].id
       ELSE ms[1].id

\* C2: for a non-empty mailbox list, DefaultMailboxID returns the ID of the
\* first mailbox flagged default, else of the first flagged verified, else of
\* the first mailbox, whatever the order of IDs and emails.
C2_DefaultThenVerifiedThenFirst ==
    (Done("DefaultMailboxID") /\ ListingDecodes /\ ListedMailboxes # <<>>) =>
        /\ result.err.isNil
        /\ result.val = PreferredMailbox(ListedMailboxes)

\* a default mailbox listed after a verified one of a smaller ID and email wins
C2_Witness ==
    /\ Done("DefaultMailboxID") /\ ListingDecodes /\ Len(ListedMailboxes) = 2
    /\ ListedMailboxes[1].verified /\ ~ListedMailboxes[1].default
    /\ ListedMailboxes[2].default /\ ~ListedMailboxes[2].verified
    /\ ListedMailboxes[1].id = 1 /\ ListedMailboxes[2].id = 2
    /\ ListedMailboxes[1].email = <<"a">> /\ ListedMailboxes[2].email = <<"b">>
    /\ result.val = 2

\* the listing request failed: no response, a failure status, or a body that does not decode
ListingFails ==
    \/ resp.kind = "transport"
    \/ resp.kind = "http" /\ resp.status >= 300
    \/ resp.kind = "http" /\ resp.body.doc.kind \in {"invalid", "scalar"}

\* C3: DefaultMailboxID fails with a "no mailboxes" error and no ID when the
\* listing succeeds with zero mailboxes, and returns the listing's error and
\* no ID when the listing fails.
C3_NoMailboxesAndListingErrors ==
    Done("DefaultMailboxID") =>
        /\ (ListingDecodes /\ ListedMailboxes = <<>>) =>
              /\ ~result.err.isNil
              /\ Contains(result.err.msg, <<"no mailboxes">>)
              /\ result.val = 0
        /\ ListingFails =>
              /\ ~result.err.isNil
              /\ result.err = doJSON(resp, "Mailboxes").err
              /\ result.val = 0

\* a listing answered 200 with an empty mailbox list
C3_Witness ==
    /\ Done("DefaultMailboxID")
    /\ resp.kind = "http" /\ resp.status = 200
    /\ resp.body.doc.kind = "object" /\ resp.body.doc.mailboxes = <<>>
    /\ result.err = NoMailboxesError

\* the bytes of a body between its first and last non-space characters
TrimmedBody(raw) ==
    LET N == {i \in 1..Len(raw) : ~IsSpace(raw[i])}
    IN IF N = {} THEN <<>> ELSE SubSeq(raw, Min(N), Max(N))

HasErrorText(doc) ==
    doc.kind = "object" /\ doc.hasError /\ doc.errorIsStr /\ doc.error # <<>>

\* the value an operation returns when nothing was decoded
ZeroResult ==
    CASE call.op = "UserInfo" -> [email |-> <<>>]
      [] call.op \in {"CreateRandomAlias", "CreateCustomAlias"} -> [id |-> 0, email |-> <<>>]
      [] call.op = "DefaultMailboxID" -> 0
      [] OTHER -> <<>>

SentBy(method) == {i \in 1..Len(sent) : sent[i].method = method}

\* the aliases of the last listed page whose email is the one asked for
Matches == {i \in 1..Len(listed) : listed[i].email = call.email}

Succeeded == resp.kind = "http" /\ resp.status < 300

ListingExhausted ==
    /\ Len(sent) > 0 /\ sent[Len(sent)].method = "GET"
    /\ Succeeded
    /\ resp.body.doc.kind \in {"object", "null"}
    /\ (resp.body.doc.kind = "object" => resp.body.doc.aliases = <<>>)

\* C6: when a page comes back with no aliases before any email matched,
\* DeleteAliasByEmail returns success and has issued no DELETE.
C6_NotFoundIsSilentSuccess ==
    (call.op = "DeleteAliasByEmail" /\ ListingExhausted) =>
        /\ pc = "done"
        /\ result.err.isNil
        /\ SentBy("DELETE") = {}

\* two pages without the email, then an empty page
C6_Witness ==
    /\ Done("DeleteAliasByEmail")
    /\ ListingExhausted
    /\ Len(sent) = 3
    /\ result.err.isNil

\* the last request was a listing, and it failed
ListRequestFailed ==
    /\ Len(sent) > 0 /\ sent[Len(sent)].method = "GET"
    /\ \/ resp.kind = "transport"
       \/ resp.kind = "http" /\ resp.status >= 300
       \/ resp.kind = "http" /\ resp.body.doc.kind \in {"invalid", "scalar"}

\* the i-th listing asks for page FirstPage + i - 1, and a failed listing ends
\* the operation with its error and without a delete
C7_State ==
    call.op = "DeleteAliasByEmail" =>
        /\ \A i \in SentBy("GET") :
              /\ \A j \in 1..i : sent[j].method = "GET"
              /\ "page_id" \in DOMAIN sent[i].query
              /\ sent[i].query["page_id"] = Itoa(FirstPage + i - 1)
              /\ Contains(sent[i].url, <<"page_id", "=">> \o Itoa(FirstPage + i - 1))
        /\ ListRequestFailed =>
              /\ pc = "done"
              /\ ~result.err.isNil /\ result.err = doJSON(resp, "Aliases").err
              /\ SentBy("DELETE") = {}

\* a listing is requested only while scanning, and the scan stops at the
\* first page that holds a match or no aliases
C7_Step ==
    (call.op = "DeleteAliasByEmail" /\ Len(sent') > Len(sent)
     /\ sent'[Len(sent')].method = "GET") =>
        /\ pc = "list"
        /\ (resp'.kind = "http" /\ resp'.status < 300 /\ resp'.body.doc.kind \in {"object", "null"}
            /\ (listed' = <<>> \/ \E i \in 1..Len(listed') : listed'[i].email = call.email))
           => pc' # "list"

\* C7: DeleteAliasByEmail requests pages FirstPage, FirstPage + 1, ... in
\* order, stops listing at the first page with a match or with no aliases,
\* ends with the error of a failed listing without deleting, and, the server
\* running out of pages, terminates.
C7_PagesInOrderAndTerminates ==
    /\ []C7_State
    /\ [][C7_Step]_vars
    /\ (pc \in {"list", "delete"}) ~> (pc = "done")

\* three pages listed, at indices 0, 1 and 2, the last one ending the scan
C7_Witness ==
    /\ Done("DeleteAliasByEmail")
    /\ SentBy("GET") = {1, 2, 3}
    /\ sent[3].query["page_id"] = <<"2">>
    /\ ListingExhausted

\* C8: DeleteAlias with a non-empty hostname sends DELETE /api/aliases/<id>
\* with hostname=<hostname> in the query string, and with an empty hostname
\* sends no hostname parameter; the outcome follows the status code alone.
C8_DeleteCarriesHostname ==
    Done("DeleteAlias") =>
        /\ sent[1].method = "DELETE"
        /\ SubSeq(sent[1].url, 1, Len(baseURL) + 1 + Len(Itoa(call.aliasID)))
             = baseURL \o <<"/api/aliases/">> \o Itoa(call.aliasID)
        /\ call.hostname # <<>> =>
             Contains(sent[1].url, <<"hostname", "=">> \o QueryEscape(call.hostname))
        /\ call.hostname = <<>> => ~Contains(sent[1].url, <<"hostname">>)
        /\ resp.kind = "http" => (result.err.isNil <=> resp.status < 300)

\* C9: CreateRandomAlias sends no body and no Content-Type header when the
\* note is nil or empty, and a JSON object whose note field is the note when
\* it is not.
C9_BodyOnlyWithANote ==
    Done("CreateRandomAlias") =>
        IF call.note.isNil \/ call.note.s = <<>>
        THEN /\ ~sent[1].hasBody
             /\ sent[1].payload = <<>>
             /\ ~HasHeader(sent[1], "Content-Type")
        ELSE /\ sent[1].hasBody
             /\ sent[1].payload = <<"{", "\"note\":\"">> \o call.note.s \o <<"\"", "}">>

----------------------------------------------------------------------------
(* query parameters *)

\* the operations of the client that take a hostname and build a query from it
QueryOps == {"AliasOptions", "CreateRandomAlias", "CreateCustomAlias"}

\* the URL carries the parameter k / carries it with the value v
HasParam(url, k) == Contains(url, <<k, "=">>)
HasParamValue(url, k, v) ==
    \/ Contains(url, <<"?", k, "=">> \o QueryEscape(v) \o <<"&">>)
    \/ Contains(url, <<"&", k, "=">> \o QueryEscape(v) \o <<"&">>)
    \/ \E i \in 1..Len(url) :
         /\ url[i] \in {"?", "&"}
         /\ SubSeq(url, i + 1, Len(url)) = <<k, "=">> \o QueryEscape(v)

RECURSIVE CountQ(_)
CountQ(u) == IF u = <<>> THEN 0 ELSE (IF Head(u) = "?" THEN 1 ELSE 0) + CountQ(Tail(u))

\* the parameters a receiver reads off a URL: the text after the first
\* question mark, cut at the ampersands
ParamsOf(u) ==
    IF CountQ(u) = 0 THEN {}
    ELSE LET k == CHOOSE i \in 1..Len(u) : u[i] = "?" /\ \A j \in 1..(i - 1) : u[j] # "?"
             parts == Split(SubSeq(u, k + 1, Len(u)), "&")
         IN {parts[i] : i \in 1..Len(parts)} \ {<<>>}

\* C12: newReq adds a question mark only to a URL that has none, so that a
\* base URL and path with at most one query string give a URL with exactly
\* one; parameters are appended after & when the URL already has a question
\* mark and after ? otherwise; an empty parameter set leaves the URL as it
\* is; every parameter of the path and every added one is in the final URL.
C12_QueryMerge ==
    (pc = "done" /\ call.op = "newReq") =>
        LET r == sent[1]
            full == baseURL \o r.path
        IN /\ r.query = EmptyQuery => r.url = full
           /\ r.query # EmptyQuery =>
                /\ CountQ(r.url) = (IF CountQ(full) = 0 THEN 1 ELSE CountQ(full))
                /\ CountQ(full) <= 1 => CountQ(r.url) = 1
                /\ SubSeq(r.url, 1, Len(full)) = full
                /\ r.url[Len(full) + 1] = (IF CountQ(full) > 0 THEN "&" ELSE "?")
                /\ CountQ(SubSeq(r.url, Len(full) + 2, Len(r.url))) = 0
           /\ ParamsOf(full) \subseteq ParamsOf(r.url)
           /\ \A k \in DOMAIN r.query :
                <<k, "=">> \o QueryEscape(r.query[k]) \in ParamsOf(r.url)

\* two parameters added to a path that has a query string
C12_Witness ==
    /\ pc = "done" /\ call.op = "newReq"
    /\ sent[1].url = <<"http://h", "/p", "?", "x", "=", "1",
                       "&", "hostname", "=", "a", "&", "page_id", "=", "b", "+">>

----------------------------------------------------------------------------
(* custom aliases *)

\* the positions of the create-custom-alias requests among those sent
Creates == {i \in 1..Len(sent) : sent[i].path = <<"/api/v3/alias/custom/new">>}

\* the positions of the requests sent to a path
SentTo(path) == {i \in 1..Len(sent) : sent[i].path = path}

\* C13: every create-custom-alias request carries a list of mailbox IDs that
\* is not empty, as the receiver decodes it.
C13_MailboxIDsNotEmpty ==
    \A i \in Creates : DecodeCustom(sent[i].payload).mailbox_ids.v # <<>>

\* C14: the body of a create-custom-alias request, as the receiver decodes it,
\* has the prefix, the signed suffix and the mailbox IDs that were passed, the
\* IDs in the same order; the keys note and name are there exactly when a
\* value was passed, and carry it; the list handed over is left as it was.
C14_BodyRoundTrip ==
    (pc = "done" /\ call.op = "CreateCustomAlias") =>
        LET d == DecodeCustom(sent[1].payload) IN
        /\ d.ok
        /\ {"alias_prefix", "signed_suffix", "mailbox_ids"} \subseteq d.keys
        /\ d.alias_prefix = call.aliasPrefix
        /\ d.signed_suffix = call.signedSuffix
        /\ d.mailbox_ids.v = call.mailboxIDs.v
        /\ "note" \in d.keys <=> ~call.note.isNil
        /\ "name" \in d.keys <=> ~call.name.isNil
        /\ ~call.note.isNil => d.note = call.note.s
        /\ ~call.name.isNil => d.name = call.name.s
        /\ sent[1].bodyArg.mailboxIDs = call.mailboxIDs

\* IDs 2, 1 and a signed suffix with a quote in it, sent with a name
C14_Witness ==
    /\ pc = "done" /\ call.op = "CreateCustomAlias"
    /\ call.mailboxIDs = IntsOf(<<2, 1>>)
    /\ call.signedSuffix = <<"s", "\"", "2">>
    /\ call.note.isNil /\ ~call.name.isNil
    /\ DecodeCustom(sent[1].payload).mailbox_ids = IntsOf(<<2, 1>>)
    /\ DecodeCustom(sent[1].payload).signed_suffix = <<"s", "\"", "2">>
    /\ DecodeCustom(sent[1].payload).keys = {"alias_prefix", "signed_suffix", "mailbox_ids", "name"}

----------------------------------------------------------------------------
(* responses of success *)

\* the operations that are one request decoded into a result
DecodingOps == {"UserInfo", "AliasOptions", "CreateRandomAlias", "CreateCustomAlias"}

\* what a valid body holds for the running operation: an object's fields,
\* the zero value for null
Decoded(doc) ==
    IF doc.kind = "null" THEN ZeroResult
    ELSE CASE call.op = "UserInfo" -> [email |-> doc.email]
           [] call.op = "AliasOptions" -> doc.suffixes
           [] OTHER -> [id |-> doc.id, email |-> doc.email]

\* C15: on a status below 300, DeleteAlias succeeds whatever the body is; an
\* operation with a result fails on a body that is not JSON for it, with an
\* error that does not have the form "HTTP <status>: ...", and otherwise
\* returns the decoded value and no error.
C15_SuccessStatusDecoding ==
    (pc = "done" /\ resp.kind = "http" /\ resp.status < 300) =>
        /\ call.op = "DeleteAlias" => result.err.isNil
        /\ (call.op \in DecodingOps /\ resp.body.doc.kind \in {"invalid", "scalar"}) =>
              /\ ~result.err.isNil
              /\ Head(result.err.msg) # "HTTP "
              /\ \A st \in Statuses, text \in {<<>>, TrimSpace(resp.body.raw)} :
                    result.err # APIError(st, text)
        /\ (call.op \in DecodingOps /\ resp.body.doc.kind \in {"null", "object"}) =>
              /\ result.err.isNil
              /\ result.val = Decoded(resp.body.doc)

\* status 299 with a body that is not JSON, for a delete and for a lookup
C15_Witness ==
    /\ pc = "done" /\ resp.kind = "http" /\ resp.status = 299
    /\ resp.body.doc = PlainDoc("invalid", <<"oops">>)
    /\ \/ call.op = "DeleteAlias" /\ result.err.isNil
       \/ call.op = "UserInfo" /\ result.err = DecodeError

----------------------------------------------------------------------------
(* the custom command *)

OptionsPath == <<"/api/v5/alias/options">>
MailboxesPath == <<"/api/v2/mailboxes">>

\* the command is past the checks of its flags
Validated == call.op = "runCustom" /\ run.flags.apiKey # <<>> /\ run.flags.prefix # <<>>

\* the signed suffix the receiver reads in the i-th request
SignedSuffixSent(i) == DecodeCustom(sent[i].payload).signed_suffix

PlainBranch ==
    Validated /\ TrimSpace(run.flags.signedSuffix) = <<>> /\ TrimSpace(run.flags.suffix) # <<>>
Interactive ==
    Validated /\ TrimSpace(run.flags.signedSuffix) = <<>> /\ TrimSpace(run.flags.suffix) = <<>>

\* the options request has been answered / answered with a decoded list
OptionsAnswered == Len(sent) >= 1 /\ sent[1].path = OptionsPath
OptionsDecoded == OptionsAnswered /\ ~(Len(sent) = 1 /\ run.stderr = "error")

\* the entries of the options response whose plain suffix is the one given
SuffixMatches == {i \in 1..Len(run.opt) : run.opt[i].suffix = run.flags.suffix}

\* the command stopped on the options: nothing was requested after them
StoppedAfterOptions(code, stderr) ==
    /\ pc = "done" /\ run.exit = code /\ run.stderr = stderr
    /\ Len(sent) = 1
    /\ SentTo(MailboxesPath) = {} /\ Creates = {}

\* C17 as stated: with a plain suffix only, an entry of the options response
\* with exactly that suffix makes the create request carry a signed suffix
\* paired with such an entry; with no such entry the command fails as not
\* found, without mailbox or create request; the options are asked for once.
C17_MatchAdoptsSignedSuffix ==
    (PlainBranch /\ OptionsDecoded) =>
        /\ Cardinality(SentTo(OptionsPath)) = 1
        /\ SuffixMatches # {} =>
              /\ run.stderr # "suffix not found"
              /\ \A i \in Creates :
                    \E m \in SuffixMatches : SignedSuffixSent(i) = run.opt[m].signedSuffix
        /\ SuffixMatches = {} => StoppedAfterOptions(2, "suffix not found")

\* C17, what the command does: the first entry of the options response with
\* exactly that suffix decides: if its signed suffix is not empty the create
\* request carries it; if it is empty, or if there is no such entry, the
\* command fails as not found, without mailbox or create request. The
\* options are asked for once.
C17_FirstMatchDecides ==
    (PlainBranch /\ OptionsDecoded) =>
        /\ Cardinality(SentTo(OptionsPath)) = 1
        /\ (SuffixMatches # {} /\ run.opt[Min(SuffixMatches)].signedSuffix # <<>>) =>
              /\ run.stderr # "suffix not found"
              /\ run.ss = run.opt[Min(SuffixMatches)].signedSuffix
              /\ \A i \in Creates : SignedSuffixSent(i) = run.opt[Min(SuffixMatches)].signedSuffix
        /\ (SuffixMatches = {} \/ run.opt[Min(SuffixMatches)].signedSuffix = <<>>) =>
              StoppedAfterOptions(2, "suffix not found")

\* .a looked up in options that offer .A and then .a: the alias is created
\* with the signed suffix of the second entry
C17_Witness ==
    /\ pc = "done" /\ run.exit = 0 /\ PlainBranch
    /\ run.flags.suffix = <<".", "a">>
    /\ run.opt = <<[suffix |-> <<".", "A">>, signedSuffix |-> <<"s", "1">>],
                   [suffix |-> <<".", "a">>, signedSuffix |-> <<"s", "\"", "2">>]>>
    /\ \E i \in Creates : SignedSuffixSent(i) = <<"s", "\"", "2">>

\* the options response is the last (and only) response so far
OnlyOptionsSoFar == Len(sent) = 1 /\ sent[1].path = OptionsPath

\* the suffix list of a response of success; none for a body of null
OfferedSuffixes ==
    IF resp.body.doc.kind = "object" THEN resp.body.doc.suffixes ELSE <<>>

\* a and b hold the same entries, each as many times
SameEntries(a, b) ==
    /\ Len(a) = Len(b)
    /\ \A x \in SuffixOption :
         Cardinality({i \in 1..Len(a) : a[i] = x}) = Cardinality({i \in 1..Len(b) : b[i] = x})

\* ascending by plain suffix
Ascending(l) == \A i, j \in 1..Len(l) : i < j => ~StrLess(l[j].suffix, l[i].suffix)

\* the number typed is one of 1..N
ValidChoice ==
    /\ Atoi(TrimSpace(run.line)).ok
    /\ Atoi(TrimSpace(run.line)).val \in 1..Len(run.shown)

\* C18: with neither suffix given, an empty suffix set fails the command
\* with no create request; otherwise the suffixes printed are those of the
\* response in ascending order of plain suffix, a number k of 1..N typed at
\* the prompt makes the create request carry the signed suffix of the k-th
\* entry printed, and any other line fails with "invalid selection" and no
\* mailbox or create request.
C18_InteractiveSelection ==
    Interactive =>
        /\ (OnlyOptionsSoFar /\ ListingDecodes /\ OfferedSuffixes = <<>>) =>
              StoppedAfterOptions(1, "no suffixes available")
        /\ (OnlyOptionsSoFar /\ ListingDecodes /\ OfferedSuffixes # <<>>) =>
              run.opt = OfferedSuffixes /\ run.shown # <<>>
        /\ run.shown # <<>> => SameEntries(run.shown, run.opt) /\ Ascending(run.shown)
        /\ (run.shown # <<>> /\ pc # "select") =>
              IF ValidChoice
              THEN /\ run.stderr # "invalid selection"
                   /\ run.ss = run.shown[Atoi(TrimSpace(run.line)).val].signedSuffix
                   /\ \A i \in Creates : SignedSuffixSent(i) = run.ss
              ELSE StoppedAfterOptions(2, "invalid selection")
        /\ Creates # {} => run.shown # <<>>

\* .a and .A offered in that order, printed as .A, .a; " 2" typed: the alias
\* is created with the signed suffix of .a
C18_Witness ==
    /\ pc = "done" /\ run.exit = 0 /\ Interactive
    /\ run.opt = <<[suffix |-> <<".", "a">>, signedSuffix |-> <<"s", "1">>],
                   [suffix |-> <<".", "A">>, signedSuffix |-> <<"s", "\"", "2">>]>>
    /\ run.shown = <<run.opt[2], run.opt[1]>>
    /\ run.line = <<" ", "2", "\n">>
    /\ \E i \in Creates : SignedSuffixSent(i) = <<"s", "1">>

\* the mailbox IDs the receiver reads in the i-th request
MailboxIDsSent(i) == DecodeCustom(sent[i].payload).mailbox_ids.v

\* the numbers written in a comma-separated list, read from left to right;
\* cur is the item being read
RECURSIVE NumbersIn(_, _)
NumbersIn(s, cur) ==
    LET item == IF TrimSpace(cur) = <<>> THEN <<>> ELSE <<Atoi(TrimSpace(cur)).val>> IN
    IF s = <<>> THEN item
    ELSE IF Head(s) = "," THEN item \o NumbersIn(Tail(s), <<>>)
    ELSE NumbersIn(Tail(s), Append(cur, Head(s)))

\* mailbox IDs were given on the command line
IDsSupplied == TrimSpace(run.flags.mailboxIDsCSV) # <<>>

----------------------------------------------------------------------------
(* construction *)

\* C20: after NewClient the base URL is the default when none was given, is
\* the one given less its trailing slashes otherwise, and is never empty and
\* never ends with a slash, whatever string was given.
C20_BaseURLNormalised ==
    (pc = "done" /\ call.op = "NewClient") =>
        /\ call.baseURL = <<>> => baseURL = DefaultBaseURL
        /\ call.baseURL # <<>> =>
              \E n \in 0..Len(call.baseURL) :
                 /\ baseURL = SubSeq(call.baseURL, 1, Len(call.baseURL) - n)
                 /\ \A i \in (Len(call.baseURL) - n + 1)..Len(call.baseURL) : call.baseURL[i] = "/"
        /\ baseURL # <<>>
        /\ baseURL[Len(baseURL)] # "/"

----------------------------------------------------------------------------
(* configuration *)

\* Load has returned without error
Loaded == pc \in {"loaded", "reloaded"} /\ config.loadErr = ""

\* the key the keyring gives out, the empty string when it gives none
StoredKey == IF config.keyringOK /\ config.keyring.has THEN config.keyring.key ELSE <<>>

\* the key and the base URL by layers: environment, then keyring or file,
\* then default
Layered ==
    /\ config.loaded.APIKey = (IF config.envKey # <<>> THEN config.envKey ELSE StoredKey)
    /\ config.loaded.BaseURL =
         (IF config.envBase # <<>> THEN config.envBase
          ELSE IF config.file.exists /\ config.file.hasBase /\ config.file.base # <<>>
               THEN config.file.base
          ELSE ConfigDefaultBaseURL)

\* Load follows a Save that returned no error, with no variable set
SavedThenLoaded ==
    /\ pc = "reloaded" /\ config.loadErr = "" /\ config.saveErr = ""
    /\ config.envKey = <<>> /\ config.envBase = <<>>

\* C21 as stated: a Load gives the key and base URL by layers, and a Load
\* that follows a Save, with no variable set, returns the key and the base
\* URL that were saved.
C21_LayeredAndSavedComesBack ==
    /\ Loaded => Layered
    /\ SavedThenLoaded => config.loaded = config.saveArg

\* C21 (amended): a Load gives the key and base URL by layers; a Load that
\* follows a Save, with no variable set, returns the key saved when it is
\* not empty and otherwise the key the keyring holds, which Save left alone,
\* and the base URL saved when it is not empty and otherwise the default.
C21_LayeredAndNonEmptySavedComesBack ==
    /\ Loaded => Layered
    /\ SavedThenLoaded =>
          /\ config.loaded.APIKey =
                (IF config.saveArg.APIKey # <<>> THEN config.saveArg.APIKey ELSE StoredKey)
          /\ config.loaded.BaseURL =
                (IF config.saveArg.BaseURL # <<>> THEN config.saveArg.BaseURL
                 ELSE ConfigDefaultBaseURL)

\* key k and a base URL with a quote in it saved over an older file and key,
\* and loaded back
C21_Witness ==
    /\ SavedThenLoaded
    /\ config.saveArg = SecureConfig(<<"k">>, <<"http://h", "/", "\"", "<">>)
    /\ config.loaded = config.saveArg

----------------------------------------------------------------------------
(* the requests of one run of the custom command *)

CreatePath == <<"/api/v3/alias/custom/new">>

\* the paths requested so far, in the order of the requests
PathsSent == [i \in 1..Len(sent) |-> sent[i].path]

\* the requests a run makes when nothing fails
FullSequence ==
    (IF TrimSpace(run.flags.signedSuffix) = <<>> THEN <<OptionsPath>> ELSE <<>>)
    \o (IF IDsSupplied THEN <<>> ELSE <<MailboxesPath>>)
    \o <<CreatePath>>

\* the last request met a transport error (a deadline that passed included),
\* a status of 300 or more, or a body that does not decode
LastRequestFailed ==
    /\ Len(sent) > 0
    /\ \/ resp.kind = "transport"
       \/ resp.status >= 300
       \/ resp.body.doc.kind \in {"invalid", "scalar"}

\* the checks the command makes itself
ValidationErrors ==
    {"missing API key", "prefix is required", "suffix not found",
     "invalid selection", "invalid mailbox id", "no suffixes available"}

C22_State ==
    call.op = "runCustom" =>
        /\ Len(sent) <= Len(FullSequence)
        /\ PathsSent = SubSeq(FullSequence, 1, Len(sent))
        /\ \A i, j \in 1..Len(sent) : sent[i].path = sent[j].path => i = j
        /\ LastRequestFailed => pc = "done" /\ run.exit >= 1 /\ ~result.err.isNil
        /\ run.stderr \in ValidationErrors => pc = "done" /\ run.exit >= 1
        /\ pc = "done" <=> run.exit # -1
        /\ run.exit = 0 => PathsSent = FullSequence /\ ~LastRequestFailed

\* a request is added at the end, one at a time, while the command runs and
\* only after the request before it succeeded; nothing happens once the
\* command has returned
C22_Step ==
    call.op = "runCustom" =>
        /\ pc # "done" /\ run.exit = -1
        /\ sent' # sent =>
              /\ Len(sent') = Len(sent) + 1
              /\ SubSeq(sent', 1, Len(sent)) = sent
              /\ Len(sent) > 0 => ~LastRequestFailed /\ result.err.isNil

\* C22: the requests of a run of the custom command are a prefix of alias
\* options (no signed suffix given), mailbox listing (no mailbox IDs given),
\* create: each at most once, each after the one before it succeeded, and
\* the first failure ends the run with no further request and an exit code
\* that is not zero.
C22_OrderedOnceAndStopsAtFailure ==
    /\ []C22_State
    /\ [][C22_Step]_vars

\* options answered, then the mailbox listing fails: two requests, exit 1
C22_Witness ==
    /\ call.op = "runCustom"
    /\ PathsSent = <<OptionsPath, MailboxesPath>>
    /\ LastRequestFailed
    /\ pc = "done" /\ run.exit = 1

----------------------------------------------------------------------------
(* what the create request of the custom command carries *)

\* the alias prefix the receiver reads in the i-th request
AliasPrefixSent(i) == DecodeCustom(sent[i].payload).alias_prefix

\* C23: every create request of the custom command carries an alias prefix
\* and a signed suffix that are not empty, whichever way the signed suffix
\* was found and whatever the options response held.
C23_PrefixAndSignedSuffixNotEmpty ==
    call.op = "runCustom" =>
        \A i \in Creates : AliasPrefixSent(i) # <<>> /\ SignedSuffixSent(i) # <<>>

\* the prefix is never empty, and the signed suffix is never empty when it
\* was given or looked up by its plain suffix
C23_NotEmptyUnlessChosen ==
    call.op = "runCustom" =>
        \A i \in Creates :
            /\ AliasPrefixSent(i) # <<>>
            /\ ~Interactive => SignedSuffixSent(i) # <<>>
====
